---- MODULE Spec2Model ----
(***************************************************************************)
(* A model of recipekeeper2recipemd (src/main.go): the ISO-8601 duration   *)
(* parser, the itemprop property extractor over a parsed HTML fragment,    *)
(* the recipe model builder, the RecipeMD renderer and the scrape loop     *)
(* that writes one file per recipe container.                              *)
(*                                                                         *)
(* A Go string is modelled as a sequence of characters; a character is a   *)
(* one-character TLA+ string, and a vulgar-fraction glyph is the string    *)
(* naming its code point ("U+00BD" is the glyph for one half).             *)
(***************************************************************************)
EXTENDS Integers, Sequences, FiniteSets, TLC

VARIABLES isoDuration, durRet, fragment, extracted, recipe, output,
          doc, pos, files, writeFailed

vars == <<isoDuration, durRet, fragment, extracted, recipe, output,
          doc, pos, files, writeFailed>>

durVars == <<isoDuration, durRet>>
extractVars == <<fragment, extracted>>
formatVars == <<recipe, output>>
scrapeVars == <<doc, pos, files, writeFailed>>

(***************************************************************************)
(* Bounds of the model.                                                    *)
(***************************************************************************)
\* Longest duration string built from tokens, in tokens.
MaxTokens == 4
\* Most nodes in one recipe fragment.
MaxNodes == 2
\* Longest list field of a Recipe handed to the renderer.
MaxList == 2
\* Most recipe containers in one document.
MaxContainers == 3

(***************************************************************************)
(* Strings.                                                                *)
(***************************************************************************)
Digits == {"0", "1", "2", "3", "4", "5", "6", "7", "8", "9"}

DigitVal(c) ==
  CASE c = "0" -> 0 [] c = "1" -> 1 [] c = "2" -> 2 [] c = "3" -> 3
    [] c = "4" -> 4 [] c = "5" -> 5 [] c = "6" -> 6 [] c = "7" -> 7
    [] c = "8" -> 8 [] c = "9" -> 9

DigitChar(n) ==
  CASE n = 0 -> "0" [] n = 1 -> "1" [] n = 2 -> "2" [] n = 3 -> "3"
    [] n = 4 -> "4" [] n = 5 -> "5" [] n = 6 -> "6" [] n = 7 -> "7"
    [] n = 8 -> "8" [] n = 9 -> "9"

IsDigits(s) == Len(s) > 0 /\ \A i \in 1..Len(s) : s[i] \in Digits

\* The value of a non-empty run of decimal digits.
RECURSIVE DigitsValue(_)
DigitsValue(s) ==
  IF s = <<>> THEN 0
  ELSE 10 * DigitsValue(SubSeq(s, 1, Len(s) - 1)) + DigitVal(s[Len(s)])

\* The decimal digits of a natural number (fmt's %d of a non-negative int).
RECURSIVE NatToStr(_)
NatToStr(n) ==
  IF n < 10 THEN <<DigitChar(n)>>
  ELSE NatToStr(n \div 10) \o <<DigitChar(n % 10)>>

\* fmt.Sprintf("%d", n)
IntToStr(n) == IF n < 0 THEN <<"-">> \o NatToStr(0 - n) ELSE NatToStr(n)

\* The length of the longest prefix of s made of digits only.
RECURSIVE DigitRun(_)
DigitRun(s) ==
  IF s = <<>> \/ s[1] \notin Digits THEN 0 ELSE 1 + DigitRun(Tail(s))

Drop(s, n) == SubSeq(s, n + 1, Len(s))
Take(s, n) == SubSeq(s, 1, n)

RECURSIVE Pow10(_)
Pow10(k) == IF k = 0 THEN 1 ELSE 10 * Pow10(k - 1)

\* strings.Join(list, sep)
RECURSIVE Join(_, _)
Join(list, sep) ==
  IF list = <<>> THEN <<>>
  ELSE IF Len(list) = 1 THEN list[1]
  ELSE list[1] \o sep \o Join(Tail(list), sep)

\* The concatenation of a sequence of strings.
RECURSIVE Concat(_)
Concat(list) == IF list = <<>> THEN <<>> ELSE list[1] \o Concat(Tail(list))

(***************************************************************************)
(* time.Duration: int64 nanoseconds in Go, here whole seconds and the      *)
(* nanoseconds below a second, so that the numbers stay in TLC's range.    *)
(***************************************************************************)
Dur(s, ns) == [s |-> s, ns |-> ns]
ZeroDuration == Dur(0, 0)
DurPositive(d) == d.s > 0 \/ d.ns > 0

(***************************************************************************)
(* strconv.ParseFloat(s, 32), strconv.FormatFloat(x, 'f', -1, 32) and      *)
(* time.ParseDuration, as ParseISODuration uses them.  A float is held as  *)
(* an integer count of half seconds: every float32 below 2^23 with a       *)
(* fraction of .0 or .5 is exact in that form, and rounding to float32's   *)
(* 24-bit significand is the same on the scaled integer.  The model covers *)
(* numerals whose fraction is .0 or .5 and whose value is below 2^25       *)
(* seconds; there the shortest decimal that identifies a float32 is its    *)
(* own decimal expansion.                                                  *)
(***************************************************************************)
Significand == 16777216   \* 2^24: float32 carries 24 significant bits

\* The power of two q with v \div q < 2^24 <= v \div (q \div 2): the spacing
\* of float32 values around v.
RECURSIVE Spacing(_, _)
Spacing(v, q) == IF v \div q < Significand THEN q ELSE Spacing(v, 2 * q)

\* v rounded to 24 significant bits, ties to the even significand.
RoundF32(v) ==
  LET q == Spacing(v, 1)
      m == v \div q
      r == v % q
  IN  IF 2 * r > q \/ (2 * r = q /\ m % 2 = 1) THEN (m + 1) * q ELSE m * q

FloatErr == [ok |-> FALSE, val |-> 0]
FloatOk(v) == [ok |-> TRUE, val |-> v]

\* The half seconds of a fraction's digits: "0.." is 0 and "50.." is 1.
FracHalves(ds) ==
  CASE \A i \in 1..Len(ds) : ds[i] = "0" -> 0
    [] ds[1] = "5" /\ \A i \in 2..Len(ds) : ds[i] = "0" -> 1

\* strconv.ParseFloat(s, 32) on the strings the regular expression can hand
\* it: digits, or digits, one character, digits.  "." makes a fraction, "e"
\* and "E" an exponent, and any other character is a syntax error.
ParseFloat32(s) ==
  LET n == DigitRun(s)
      c == s[n + 1]
      rest == Drop(s, n + 1)
  IN  IF n = 0 THEN FloatErr
      ELSE IF n = Len(s) THEN FloatOk(RoundF32(2 * DigitsValue(s)))
      ELSE IF ~IsDigits(rest) THEN FloatErr
      ELSE IF c = "." THEN
        FloatOk(RoundF32(2 * DigitsValue(Take(s, n)) + FracHalves(rest)))
      ELSE IF c \in {"e", "E"} THEN
        FloatOk(RoundF32(2 * DigitsValue(Take(s, n)) * Pow10(DigitsValue(rest))))
      ELSE FloatErr

\* strconv.FormatFloat(x, 'f', -1, 32): x rounded to float32, then the
\* shortest decimal that identifies it.
FormatFloat32(v) ==
  LET f == RoundF32(v)
  IN  NatToStr(f \div 2) \o (IF f % 2 = 1 THEN <<".", "5">> ELSE <<>>)

\* The nanoseconds of a fraction's digits (time.leadingFraction): digits
\* beyond the ninth are dropped.
FracNanos(ds) ==
  LET k == IF Len(ds) > 9 THEN 9 ELSE Len(ds)
  IN  DigitsValue(Take(ds, k)) * Pow10(9 - k)

DurErr == [ok |-> FALSE, d |-> ZeroDuration]
DurOk(d) == [ok |-> TRUE, d |-> d]

\* time.ParseDuration on digits, an optional "." and digits, and the unit
\* "s".
ParseDuration(s) ==
  LET n == DigitRun(s)
      afterInt == Drop(s, n)
      hasDot == afterInt # <<>> /\ afterInt[1] = "."
      fracLen == IF hasDot THEN DigitRun(Tail(afterInt)) ELSE 0
      frac == IF hasDot THEN Take(Tail(afterInt), fracLen) ELSE <<>>
      unit == IF hasDot THEN Drop(afterInt, 1 + fracLen) ELSE afterInt
  IN  IF n = 0 /\ fracLen = 0 THEN DurErr
      ELSE IF unit # <<"s">> THEN DurErr
      ELSE DurOk(Dur(DigitsValue(Take(s, n)), FracNanos(frac)))

(***************************************************************************)
(* The regular expression of ParseISODuration,                             *)
(*   ^P(?:(\d+)Y)?(?:(\d+)M)?(?:(\d+)D)?T(?:(\d+)H)?(?:(\d+)M)?            *)
(*    (?:(\d+(?:.\d+)?)S)?$                                                *)
(* matched as Go's leftmost-first matcher does.  Every optional group      *)
(* starts with a run of digits and ends with its own letter, so taking a   *)
(* group whenever it fits is the only way the whole string can match.      *)
(***************************************************************************)
\* (?:(\d+)X)? at the head of s: the digits captured (empty when the group
\* does not fit) and what is left of s.
OptGroup(s, letter) ==
  LET n == DigitRun(s)
  IN  IF n > 0 /\ Len(s) > n /\ s[n + 1] = letter
      THEN [cap |-> Take(s, n), rest |-> Drop(s, n + 1)]
      ELSE [cap |-> <<>>, rest |-> s]

\* The "." of the regular expression matches any character but a newline.
DotMatches(c) == c # "\n"

\* (?:(\d+(?:.\d+)?)S)? at the head of s.
SecondsGroup(s) ==
  LET n == DigitRun(s)
      m == IF Len(s) > n + 1 THEN DigitRun(Drop(s, n + 1)) ELSE 0
  IN  IF n > 0 /\ m > 0 /\ DotMatches(s[n + 1])
              /\ Len(s) > n + 1 + m /\ s[n + 2 + m] = "S"
        THEN [cap |-> Take(s, n + 1 + m), rest |-> Drop(s, n + 2 + m)]
      ELSE IF n > 0 /\ Len(s) > n /\ s[n + 1] = "S"
        THEN [cap |-> Take(s, n), rest |-> Drop(s, n + 1)]
      ELSE [cap |-> <<>>, rest |-> s]

NoMatch == [matched |-> FALSE, m |-> <<>>]

\* re.FindStringSubmatch: the six captured groups, or no match.
FindStringSubmatch(s) ==
  IF s = <<>> \/ s[1] # "P" THEN NoMatch
  ELSE
    LET gY == OptGroup(Tail(s), "Y")
        gMo == OptGroup(gY.rest, "M")
        gD == OptGroup(gMo.rest, "D")
    IN  IF gD.rest = <<>> \/ gD.rest[1] # "T" THEN NoMatch
        ELSE
          LET gH == OptGroup(Tail(gD.rest), "H")
              gMi == OptGroup(gH.rest, "M")
              gS == SecondsGroup(gMi.rest)
          IN  IF gS.rest # <<>> THEN NoMatch
              ELSE [matched |-> TRUE,
                    m |-> <<gY.cap, gMo.cap, gD.cap, gH.cap, gMi.cap, gS.cap>>]

\* One "if matches[i] != ''" block of ParseISODuration: the running state
\* is the sum so far (in half seconds) or a failure.
AddComponent(acc, group, factor) ==
  IF ~acc.ok \/ group = <<>> THEN acc
  ELSE LET f == ParseFloat32(group)
       IN  IF ~f.ok THEN FloatErr ELSE FloatOk(acc.val + f.val * factor)

\* The mutant of DaysFactor that skips the day component as the year and
\* the month are skipped.
DaysFactorSkipped == 0 * 60 * 60

\* f * 24 * 60 * 60
DaysFactor == 24 * 60 * 60

ParseISODuration(s) ==
  LET r == FindStringSubmatch(s)
  IN  IF ~r.matched THEN DurErr
      ELSE
        LET days == AddComponent(FloatOk(0), r.m[3], DaysFactor)
            hours == AddComponent(days, r.m[4], 60 * 60)
            minutes == AddComponent(hours, r.m[5], 60)
            seconds == AddComponent(minutes, r.m[6], 1)
        IN  IF ~seconds.ok THEN DurErr
            ELSE ParseDuration(FormatFloat32(seconds.val) \o <<"s">>)

(***************************************************************************)
(* The duration parser on its own: an input string is drawn, then          *)
(* ParseISODuration is called on it.                                       *)
(***************************************************************************)
Tokens ==
  { <<"P">>, <<"T">>, <<"p">>,
    <<"1", "Y">>, <<"1", "M">>, <<"1", "D">>, <<"1", "H">>, <<"3", "0", "M">>,
    <<"0", "S">>, <<"1", ".", "5", "S">>, <<"1", "e", "5", "S">>,
    <<"1", "x", "5", "S">>,
    <<"1", "6", "7", "7", "7", "2", "1", "7", "S">> }

PT0S == <<"P", "T", "0", "S">>
P1DT == <<"P", "1", "D", "T">>
PT1H30M == <<"P", "T", "1", "H", "3", "0", "M">>
PT1p5S == <<"P", "T", "1", ".", "5", "S">>
NoLeadingP == <<"1", "D", "T", "0", "S">>
P1Y1M1DT1H == <<"P", "1", "Y", "1", "M", "1", "D", "T", "1", "H">>

Examples == {PT0S, P1DT, PT1H30M, PT1p5S, NoLeadingP, P1Y1M1DT1H}

\* The strings of at most max tokens, and the examples.
DurationInputs(max) ==
  { Concat(ts) : ts \in UNION { [1..n -> Tokens] : n \in 0..max } } \cup Examples

NotCalled == [called |-> FALSE, ok |-> FALSE, d |-> ZeroDuration]

IdleExtract == fragment = <<>> /\ extracted = [done |-> FALSE]
IdleFormat == recipe = <<>> /\ output = [done |-> FALSE]
IdleScrape == doc = <<>> /\ pos = 0 /\ files = <<>> /\ writeFailed = FALSE
IdleDuration == isoDuration = <<>> /\ durRet = NotCalled

InitDuration ==
  /\ isoDuration \in DurationInputs(MaxTokens)
  /\ durRet = NotCalled
  /\ IdleExtract /\ IdleFormat /\ IdleScrape

CallParseISODuration ==
  /\ ~durRet.called
  /\ durRet' = [called |-> TRUE] @@ ParseISODuration(isoDuration)
  /\ UNCHANGED <<isoDuration, extractVars, formatVars, scrapeVars>>

NextDuration == CallParseISODuration

SpecDuration == InitDuration /\ [][NextDuration]_vars

(***************************************************************************)
(* The documented grammar of a duration string and its documented value,   *)
(* stated on their own: "P", optional <int>Y, <int>M, <int>D, a mandatory  *)
(* "T", optional <int>H, <int>M and <float>S, where <float> is digits      *)
(* optionally followed by "." and digits.                                  *)
(***************************************************************************)
GrammarInt(s, letter) ==
  LET n == DigitRun(s)
  IN  IF n > 0 /\ Len(s) > n /\ s[n + 1] = letter
      THEN [digits |-> Take(s, n), rest |-> Drop(s, n + 1)]
      ELSE [digits |-> <<>>, rest |-> s]

GrammarFloat(s) ==
  LET n == DigitRun(s)
      m == IF Len(s) > n + 1 /\ s[n + 1] = "." THEN DigitRun(Drop(s, n + 1)) ELSE 0
  IN  IF n > 0 /\ Len(s) > n /\ s[n + 1] = "S"
        THEN [digits |-> Take(s, n), frac |-> <<>>, rest |-> Drop(s, n + 1)]
      ELSE IF n > 0 /\ m > 0 /\ Len(s) > n + 1 + m /\ s[n + 2 + m] = "S"
        THEN [digits |-> Take(s, n), frac |-> SubSeq(s, n + 2, n + 1 + m),
              rest |-> Drop(s, n + 2 + m)]
      ELSE [digits |-> <<>>, frac |-> <<>>, rest |-> s]

\* The components of s read by the grammar; inGrammar tells whether the
\* whole of s is a sentence of it.
GrammarParse(s) ==
  LET y == GrammarInt(IF s = <<>> THEN s ELSE Tail(s), "Y")
      mo == GrammarInt(y.rest, "M")
      d == GrammarInt(mo.rest, "D")
      h == GrammarInt(IF d.rest = <<>> THEN d.rest ELSE Tail(d.rest), "H")
      mi == GrammarInt(h.rest, "M")
      sec == GrammarFloat(mi.rest)
  IN  [inGrammar |-> /\ s # <<>> /\ s[1] = "P"
                     /\ d.rest # <<>> /\ d.rest[1] = "T"
                     /\ sec.rest = <<>>,
       days |-> DigitsValue(d.digits), hours |-> DigitsValue(h.digits),
       minutes |-> DigitsValue(mi.digits), seconds |-> DigitsValue(sec.digits),
       nanos |-> FracNanos(sec.frac)]

InGrammar(s) == GrammarParse(s).inGrammar

\* days*86400 + hours*3600 + minutes*60 + seconds, absent components 0.
DocumentedValue(s) ==
  LET g == GrammarParse(s)
  IN  Dur(g.days * 86400 + g.hours * 3600 + g.minutes * 60 + g.seconds, g.nanos)

Returned(s) == durRet.called /\ isoDuration = s

\* C1 (as stated): every accepted string of the grammar yields exactly
\* days*86400 + hours*3600 + minutes*60 + seconds.
C1_ExactSum ==
  (durRet.called /\ durRet.ok /\ InGrammar(isoDuration))
    => durRet.d = DocumentedValue(isoDuration)

\* C2 (as stated): every string outside the documented grammar is a parse
\* failure, never a duration.
C2_OutsideGrammarFails ==
  (durRet.called /\ ~InGrammar(isoDuration)) => ~durRet.ok

\* C3 (as stated): ParseISODuration("P1Y1M1DT1H") succeeds with exactly
\* 3600 seconds.
C3_Original ==
  Returned(P1Y1M1DT1H) => (durRet.ok /\ durRet.d = Dur(3600, 0))

\* C3 (amended): ParseISODuration("P1Y1M1DT1H") succeeds with exactly
\* 90000 seconds, the day and the hour; the year and the month add nothing.
C3_DayAndHour ==
  Returned(P1Y1M1DT1H) => (durRet.ok /\ durRet.d = Dur(90000, 0))

\* C3: ParseISODuration has returned a duration for "P1Y1M1DT1H".
C3_Witness == Returned(P1Y1M1DT1H) /\ durRet.ok

(***************************************************************************)
(* The parsed HTML fragment of one recipe container (a goquery selection): *)
(* its descendant elements in document order.  An element has a tag, its   *)
(* attributes (a function from the attribute names it carries), its text   *)
(* (Text(): the text of the element and its descendants) and the text of   *)
(* each of its direct child elements.                                      *)
(***************************************************************************)
Elem(tag, attrs, text) ==
  [tag |-> tag, attrs |-> attrs, text |-> text, children |-> <<>>]

\* An element whose content is its child elements.
Parent(tag, attrs, children) ==
  [tag |-> tag, attrs |-> attrs, text |-> Concat(children), children |-> children]

HasAttr(n, attr) == attr \in DOMAIN n.attrs

\* Selection.Text(): the combined text of every element of the selection.
Text(sel) == Concat([i \in 1..Len(sel) |-> sel[i].text])

\* Selection.AttrOr(attr, defaultValue): the attribute of the first element.
AttrOr(sel, attr, defaultValue) ==
  IF sel # <<>> /\ HasAttr(sel[1], attr) THEN sel[1].attrs[attr] ELSE defaultValue

\* Selection.Children(): the child elements of every element of the selection.
Children(sel) == Concat([i \in 1..Len(sel) |-> sel[i].children])

\* s.Find(elemName + "[itemprop=\"" + propName + "\"]")
ItemProp(s, elemName, propName) ==
  SelectSeq(s, LAMBDA n : /\ (elemName = "" \/ n.tag = elemName)
                          /\ HasAttr(n, "itemprop")
                          /\ n.attrs["itemprop"] = propName)

ItemPropAttrOr(s, elemName, propName, attr, defaultValue) ==
  AttrOr(ItemProp(s, elemName, propName), attr, defaultValue)

ItemPropElemText(s, propName) == Text(ItemProp(s, "", propName))

ItemPropContentOr(s, propName, defaultValue) ==
  ItemPropAttrOr(s, "meta", propName, "content", defaultValue)

\* The strings of list that are not empty, in order.
NonEmpty(list) == SelectSeq(list, LAMBDA x : x # <<>>)

ItemPropContentList(s, propName) ==
  LET metas == ItemProp(s, "meta", propName)
  IN  NonEmpty([i \in 1..Len(metas) |-> AttrOr(<<metas[i]>>, "content", <<>>)])

\* The fifteen vulgar-fraction glyphs, named by code point, and their ASCII
\* replacements.
fractions ==
  [g \in {"U+00BC", "U+00BD", "U+00BE", "U+2153", "U+2154", "U+2155", "U+2156",
          "U+2157", "U+2158", "U+2159", "U+215A", "U+215B", "U+215C", "U+215D",
          "U+215E"} |->
     CASE g = "U+00BC" -> <<"1", "/", "4">>
       [] g = "U+00BD" -> <<"1", "/", "2">>
       [] g = "U+00BE" -> <<"3", "/", "4">>
       [] g = "U+2153" -> <<"1", "/", "3">>
       [] g = "U+2154" -> <<"2", "/", "3">>
       [] g = "U+2155" -> <<"1", "/", "5">>
       [] g = "U+2156" -> <<"2", "/", "5">>
       [] g = "U+2157" -> <<"3", "/", "5">>
       [] g = "U+2158" -> <<"4", "/", "5">>
       [] g = "U+2159" -> <<"1", "/", "6">>
       [] g = "U+215A" -> <<"5", "/", "6">>
       [] g = "U+215B" -> <<"1", "/", "8">>
       [] g = "U+215C" -> <<"3", "/", "8">>
       [] g = "U+215D" -> <<"5", "/", "8">>
       [] g = "U+215E" -> <<"7", "/", "8">>]

\* The mutant of ConvertRune that copies every rune as it is.
ConvertRuneCopied(r) == <<r>>

\* What ConvertFractions writes for one rune.
ConvertRune(r) == IF r \in DOMAIN fractions THEN fractions[r] ELSE <<r>>

ConvertFractions(input) ==
  Concat([i \in 1..Len(input) |-> ConvertRune(input[i])])

\* unicode.IsSpace
WhiteSpace ==
  {" ", "\t", "\n", "\r", "U+000B", "U+000C", "U+0085", "U+00A0", "U+1680",
   "U+2000", "U+2001", "U+2002", "U+2003", "U+2004", "U+2005", "U+2006",
   "U+2007", "U+2008", "U+2009", "U+200A", "U+2028", "U+2029", "U+202F",
   "U+205F", "U+3000"}

RECURSIVE TrimLeft(_)
TrimLeft(s) == IF s # <<>> /\ s[1] \in WhiteSpace THEN TrimLeft(Tail(s)) ELSE s

RECURSIVE TrimRight(_)
TrimRight(s) ==
  IF s # <<>> /\ s[Len(s)] \in WhiteSpace THEN TrimRight(Take(s, Len(s) - 1)) ELSE s

\* strings.TrimSpace
TrimSpace(s) == TrimRight(TrimLeft(s))

\* The mutant of ChildText that forgets to trim.
ChildTextUntrimmed(text) == ConvertFractions(text)

\* partext of one child in ItemPropChildrenText's callback.
ChildText(text) == ConvertFractions(TrimSpace(text))

ItemPropChildrenText(s, propName) ==
  LET kids == Children(ItemProp(s, "", propName))
  IN  NonEmpty([i \in 1..Len(kids) |-> ChildText(kids[i])])

\* What one element adds to the courses: a span its text, a meta its
\* content attribute, any other element nothing.
CourseOf(elem) ==
  IF elem.tag = "span" THEN elem.text
  ELSE IF elem.tag = "meta" THEN AttrOr(<<elem>>, "content", <<>>)
  ELSE <<>>

ExtractRecipeCourses(s) ==
  LET elems == ItemProp(s, "", "recipeCourse")
  IN  NonEmpty([i \in 1..Len(elems) |-> CourseOf(elems[i])])

\* s.Find("img.recipe-photos"), then the src of each.
ExtractRecipePhotos(s) ==
  LET imgs == SelectSeq(s, LAMBDA n : /\ n.tag = "img" /\ HasAttr(n, "class")
                                      /\ n.attrs["class"] = "recipe-photos")
  IN  NonEmpty([i \in 1..Len(imgs) |-> AttrOr(<<imgs[i]>>, "src", <<>>)])

\* strconv.Atoi: an optional sign and decimal digits.
Atoi(s) ==
  LET signed == s # <<>> /\ s[1] \in {"+", "-"}
      ds == IF signed THEN Tail(s) ELSE s
  IN  IF ~IsDigits(ds) THEN [ok |-> FALSE, val |-> 0]
      ELSE [ok |-> TRUE,
            val |-> IF signed /\ s[1] = "-" THEN 0 - DigitsValue(ds)
                    ELSE DigitsValue(ds)]

\* if err == nil { field = value }: the field keeps its zero value on error.
OrZero(ret, zero) == IF ret.ok THEN ret.d ELSE zero

\* metadata.PrepTime
PrepTimeOf(s) ==
  OrZero(ParseISODuration(TrimSpace(
           ItemPropContentOr(s, "prepTime", <<"P", "T", "5", "0", "S">>))),
         ZeroDuration)

\* metadata.CookTime
CookTimeOf(s) ==
  OrZero(ParseISODuration(ItemPropContentOr(s, "cookTime", PT0S)), ZeroDuration)

\* The mutant of FavoritedOf that compares without regard to case.
FavoritedOfAnyCase(s) ==
  ItemPropContentOr(s, "recipeIsFavourite", <<"F", "a", "l", "s", "e">>)
    \in {<<"T", "r", "u", "e">>, <<"t", "r", "u", "e">>, <<"T", "R", "U", "E">>}

\* metadata.Favorited
FavoritedOf(s) ==
  ItemPropContentOr(s, "recipeIsFavourite", <<"F", "a", "l", "s", "e">>)
    = <<"T", "r", "u", "e">>

\* metadata.Rating
RatingOf(s) ==
  LET ret == Atoi(ItemPropContentOr(s, "recipeRating", <<"0">>))
  IN  IF ret.ok THEN ret.val ELSE 0

ExtractRecipeMetadata(s) ==
  [UUID |-> ItemPropContentOr(s, "recipeId", <<>>),
   Favorited |-> FavoritedOf(s),
   Rating |-> RatingOf(s),
   Source |-> ItemPropElemText(s, "recipeSource"),
   CategoryList |-> ItemPropContentList(s, "recipeCategory"),
   CollectionList |-> ItemPropContentList(s, "recipeCollection"),
   CourseList |-> ExtractRecipeCourses(s),
   Yield |-> ItemPropElemText(s, "recipeYield"),
   PrepTime |-> PrepTimeOf(s),
   CookTime |-> CookTimeOf(s)]

ExtractRecipe(s) ==
  [Title |-> ItemPropElemText(s, "name"),
   Metadata |-> ExtractRecipeMetadata(s),
   PhotoPaths |-> ExtractRecipePhotos(s),
   IngredientLines |-> ItemPropChildrenText(s, "recipeIngredients"),
   InstructionLines |-> ItemPropChildrenText(s, "recipeDirections"),
   NotesLines |-> ItemPropChildrenText(s, "recipeNotes")]

(***************************************************************************)
(* The recipe model builder on its own: a fragment of at most MaxNodes     *)
(* elements is drawn, then ExtractRecipe is called on it.                  *)
(***************************************************************************)
Prop(name) == [itemprop |-> name]
Meta(name, content) == Elem("meta", [itemprop |-> name, content |-> content], <<>>)

Soup == <<"S", "o", "u", "p">>
Stew == <<"S", "t", "e", "w">>
Soon == <<"s", "o", "o", "n">>
True == <<"T", "r", "u", "e">>
SpacePT0S == <<" ">> \o PT0S
OneHalfCupsBroth ==
  <<"1", " ", "U+00BD", " ", "c", "u", "p", "s", " ", "b", "r", "o", "t", "h">>
AbcId == <<"a", "b", "c", "-", "1", "2", "3">>

NameNodes == {Elem("h2", Prop("name"), Soup), Elem("span", Prop("name"), Stew)}

TextNodes ==
  {Elem("span", Prop("recipeSource"), <<"w", "e", "b">>),
   Elem("a", Prop("recipeSource"), <<"b", "o", "o", "k">>),
   Elem("span", Prop("recipeYield"), <<"4">>)}

TimeNodes ==
  {Meta("prepTime", PT1H30M), Meta("prepTime", Soon), Meta("prepTime", SpacePT0S),
   Elem("meta", Prop("prepTime"), <<>>),
   Meta("cookTime", PT1H30M), Meta("cookTime", Soon), Meta("cookTime", SpacePT0S)}

FavouriteNodes ==
  {Meta("recipeIsFavourite", True), Meta("recipeIsFavourite", <<"t", "r", "u", "e">>),
   Meta("recipeIsFavourite", <<"T", "R", "U", "E">>),
   Meta("recipeIsFavourite", <<"f", "a", "l", "s", "e">>),
   Meta("recipeIsFavourite", <<>>),
   Elem("span", Prop("recipeIsFavourite"), True)}

LineNodes ==
  {Parent("ul", Prop("recipeIngredients"),
          <<OneHalfCupsBroth, <<" ", "\t">>,
            <<"s", "a", "l", "t">>>>),
   Parent("div", Prop("recipeIngredients"),
          <<<<" ", "U+00BE", "t", "s", "p", "\n">>>>),
   Parent("div", Prop("recipeDirections"),
          <<<<"m", "i", "x">>, <<"U+00A0">>>>),
   Parent("div", Prop("recipeNotes"), <<<<"U+215E">>>>)}

OtherNodes ==
  {Meta("recipeId", AbcId), Meta("recipeRating", <<"4">>), Meta("recipeRating", <<"x">>),
   Meta("recipeCategory", <<"a">>), Meta("recipeCollection", <<"b">>),
   Meta("recipeCourse", <<"D">>), Elem("span", Prop("recipeCourse"), <<"Q">>),
   Elem("img", [class |-> "recipe-photos", src |-> <<"p", ".", "j", "p", "g">>], <<>>)}

NodePool == NameNodes \cup TextNodes \cup TimeNodes \cup FavouriteNodes \cup LineNodes \cup OtherNodes

\* The fragments of at most max elements.
Fragments(max) == UNION { [1..n -> NodePool] : n \in 0..max }

InitExtract ==
  /\ fragment \in Fragments(MaxNodes)
  /\ extracted = [done |-> FALSE]
  /\ IdleDuration /\ IdleFormat /\ IdleScrape

CallExtractRecipe ==
  /\ ~extracted.done
  /\ extracted' = [done |-> TRUE, recipe |-> ExtractRecipe(fragment)]
  /\ UNCHANGED <<fragment, durVars, formatVars, scrapeVars>>

NextExtract == CallExtractRecipe

SpecExtract == InitExtract /\ [][NextExtract]_vars

(***************************************************************************)
(* What the documentation says of the extracted recipe, stated on the      *)
(* fragment itself.                                                        *)
(***************************************************************************)
Built == extracted.done
Metadata == extracted.recipe.Metadata

\* The positions of the elements (of the given tag, or of any tag when tag
\* is "") that carry the property.
Carrying(tag, name) ==
  { i \in 1..Len(fragment) :
      /\ tag = "" \/ fragment[i].tag = tag
      /\ "itemprop" \in DOMAIN fragment[i].attrs
      /\ fragment[i].attrs["itemprop"] = name }

First(S) == CHOOSE i \in S : \A j \in S : i <= j

Absent(tag, name) == Carrying(tag, name) = {}

\* The first meta element of the property has a content attribute.
HasContent(name) ==
  /\ ~Absent("meta", name)
  /\ "content" \in DOMAIN fragment[First(Carrying("meta", name))].attrs

ContentOf(name) == fragment[First(Carrying("meta", name))].attrs["content"]

\* C4 (as stated): PrepTime is 50s when the prepTime meta is absent or its
\* content does not parse, CookTime is 0s when the cookTime meta is absent
\* or its content does not parse.
C4_DefaultsOnFailure ==
  Built =>
    /\ (\/ Absent("meta", "prepTime")
        \/ HasContent("prepTime")
             /\ ~ParseISODuration(TrimSpace(ContentOf("prepTime"))).ok)
         => Metadata.PrepTime = Dur(50, 0)
    /\ (\/ Absent("meta", "cookTime")
        \/ HasContent("cookTime") /\ ~ParseISODuration(ContentOf("cookTime")).ok)
         => Metadata.CookTime = Dur(0, 0)

\* The text of the first element carrying the property, "" when there is
\* none.
FirstText(name) ==
  IF Absent("", name) THEN <<>> ELSE fragment[First(Carrying("", name))].text

\* C8 (as stated): the title, the source and the yield are the text of the
\* first element carrying name, recipeSource and recipeYield; the text of
\* later matches is no part of them.
C8_FirstMatchOnly ==
  Built =>
    /\ extracted.recipe.Title = FirstText("name")
    /\ Metadata.Source = FirstText("recipeSource")
    /\ Metadata.Yield = FirstText("recipeYield")

\* The glyph table of the documentation, as pairs.
GlyphTable ==
  { <<"U+00BC", <<"1", "/", "4">>>>, <<"U+00BD", <<"1", "/", "2">>>>,
    <<"U+00BE", <<"3", "/", "4">>>>, <<"U+2153", <<"1", "/", "3">>>>,
    <<"U+2154", <<"2", "/", "3">>>>, <<"U+2155", <<"1", "/", "5">>>>,
    <<"U+2156", <<"2", "/", "5">>>>, <<"U+2157", <<"3", "/", "5">>>>,
    <<"U+2158", <<"4", "/", "5">>>>, <<"U+2159", <<"1", "/", "6">>>>,
    <<"U+215A", <<"5", "/", "6">>>>, <<"U+215B", <<"1", "/", "8">>>>,
    <<"U+215C", <<"3", "/", "8">>>>, <<"U+215D", <<"5", "/", "8">>>>,
    <<"U+215E", <<"7", "/", "8">>>> }

RECURSIVE GlyphsReplaced(_)
GlyphsReplaced(text) ==
  IF text = <<>> THEN <<>>
  ELSE (IF \E p \in GlyphTable : p[1] = text[1]
        THEN (CHOOSE p \in GlyphTable : p[1] = text[1])[2]
        ELSE <<text[1]>>) \o GlyphsReplaced(Tail(text))

Inked(text) == { i \in 1..Len(text) : text[i] \notin WhiteSpace }

\* The text between its first and its last character that is not white
\* space.
Trimmed(text) ==
  IF Inked(text) = {} THEN <<>>
  ELSE SubSeq(text, First(Inked(text)),
              CHOOSE i \in Inked(text) : \A j \in Inked(text) : j <= i)

\* The direct children of the elements carrying the property, in document
\* order.
RECURSIVE ChildrenFrom(_, _)
ChildrenFrom(i, name) ==
  IF i > Len(fragment) THEN <<>>
  ELSE (IF i \in Carrying("", name) THEN fragment[i].children ELSE <<>>)
         \o ChildrenFrom(i + 1, name)

\* One entry per child whose text is not white space only: the trimmed
\* text with its glyphs replaced.
RECURSIVE LinesOf(_)
LinesOf(kids) ==
  IF kids = <<>> THEN <<>>
  ELSE (IF Inked(kids[1]) = {} THEN <<>> ELSE <<GlyphsReplaced(Trimmed(kids[1]))>>)
         \o LinesOf(Tail(kids))

AllLines ==
  extracted.recipe.IngredientLines \o extracted.recipe.InstructionLines
    \o extracted.recipe.NotesLines

\* C9: each of the three line lists holds, in document order, one entry
\* per direct child of the property-named container whose trimmed text is
\* not empty: the trimmed text with the table's glyphs replaced.  Children
\* of white space only leave no entry, nothing matching leaves the empty
\* list, and ConvertFractions leaves every entry as it is.
C9_ChildrenText ==
  Built =>
    /\ extracted.recipe.IngredientLines = LinesOf(ChildrenFrom(1, "recipeIngredients"))
    /\ extracted.recipe.InstructionLines = LinesOf(ChildrenFrom(1, "recipeDirections"))
    /\ extracted.recipe.NotesLines = LinesOf(ChildrenFrom(1, "recipeNotes"))
    /\ \A i \in 1..Len(AllLines) : ConvertFractions(AllLines[i]) = AllLines[i]

\* C9: a container with a glyph child, a child of white space only and a
\* plain child has been read.
C9_Witness ==
  /\ Built
  /\ Cardinality(Carrying("", "recipeIngredients")) = 1
  /\ Len(ChildrenFrom(1, "recipeIngredients")) = 3
  /\ extracted.recipe.IngredientLines =
       << <<"1", " ", "1", "/", "2", " ", "c", "u", "p", "s", " ", "b", "r", "o", "t", "h">>,
          <<"s", "a", "l", "t">> >>

\* C10: Favorited is true exactly when the content of the (first)
\* recipeIsFavourite meta element is the string "True".
C10_FavoritedIffTrue ==
  Built =>
    (Metadata.Favorited <=>
       (HasContent("recipeIsFavourite") /\ ContentOf("recipeIsFavourite") = True))

\* C10: a fragment whose flag reads "true" in lower case has been built.
C10_Witness ==
  /\ Built
  /\ HasContent("recipeIsFavourite")
  /\ ContentOf("recipeIsFavourite") = <<"t", "r", "u", "e">>
  /\ ~Metadata.Favorited

(***************************************************************************)
(* time.Duration.String(), which fmt's %s applies to a Duration: the       *)
(* units below a second for a span under a second, hours, minutes and      *)
(* seconds otherwise.                                                      *)
(***************************************************************************)
\* The digits of n, zero-padded on the left to the given width.
RECURSIVE Padded(_, _)
Padded(n, width) ==
  IF width = 0 THEN <<>> ELSE Padded(n \div 10, width - 1) \o <<DigitChar(n % 10)>>

RECURSIVE StripZeros(_)
StripZeros(ds) ==
  IF ds # <<>> /\ ds[Len(ds)] = "0" THEN StripZeros(Take(ds, Len(ds) - 1)) ELSE ds

\* time.fmtFrac: the fraction v / 10^prec, without trailing zeros and
\* without the point when it is zero.
FmtFrac(v, prec) ==
  LET ds == StripZeros(Padded(v, prec))
  IN  IF ds = <<>> THEN <<>> ELSE <<".">> \o ds

DurationString(d) ==
  IF d.s = 0 /\ d.ns = 0 THEN <<"0", "s">>
  ELSE IF d.s = 0 THEN
    IF d.ns < 1000 THEN NatToStr(d.ns) \o <<"n", "s">>
    ELSE IF d.ns < 1000000
      THEN NatToStr(d.ns \div 1000) \o FmtFrac(d.ns % 1000, 3) \o <<"U+00B5", "s">>
    ELSE NatToStr(d.ns \div 1000000) \o FmtFrac(d.ns % 1000000, 6) \o <<"m", "s">>
  ELSE
    LET secs == NatToStr(d.s % 60) \o FmtFrac(d.ns, 9) \o <<"s">>
        mins == d.s \div 60
    IN  IF mins = 0 THEN secs
        ELSE IF mins \div 60 = 0 THEN NatToStr(mins % 60) \o <<"m">> \o secs
        ELSE NatToStr(mins \div 60) \o <<"h">> \o NatToStr(mins % 60) \o <<"m">> \o secs

(***************************************************************************)
(* The renderer.  FormatAsRecipeMD writes to a strings.Builder; w1, w2,    *)
(* ... are the builder after each group of writes.                         *)
(***************************************************************************)
NL == <<"\n">>
Separator == <<"\n", "-", "-", "-", "\n", "\n">>
CommaSpace == <<",", " ">>

\* One "- %s\n" per ingredient, in order.
RECURSIVE IngredientBlock(_)
IngredientBlock(lines) ==
  IF lines = <<>> THEN <<>>
  ELSE <<"-", " ">> \o lines[1] \o NL \o IngredientBlock(Tail(lines))

\* The mutant of SourceBlock that drops the blank line before the source
\* when there is no source.
SourceBlockCollapsed(m) ==
  IF m.Source # <<>> THEN NL \o <<"S", "o", "u", "r", "c", "e", ":", " ">> \o m.Source \o NL ELSE <<>>

\* The blank line and the optional source line.
SourceBlock(m) ==
  NL \o (IF m.Source # <<>> THEN <<"S", "o", "u", "r", "c", "e", ":", " ">> \o m.Source \o NL ELSE <<>>)

FormatAsRecipeMD(r) ==
  LET m == r.Metadata
      w1 == <<"#", " ">> \o r.Title \o NL
      w2 == w1 \o NL
               \o (IF m.Rating # 0
                   THEN <<"R", "a", "t", "i", "n", "g", ":", " ">> \o IntToStr(m.Rating) \o <<"-", "s", "t", "a", "r", "\n">> ELSE <<>>)
               \o (IF Len(m.CollectionList) > 0
                   THEN <<"C", "o", "l", "l", "e", "c", "t", "i", "o", "n", "s", ":", " ">> \o Join(m.CollectionList, CommaSpace) \o NL
                   ELSE <<>>)
               \o (IF Len(m.CourseList) > 0
                   THEN <<"C", "o", "u", "r", "s", "e", ":", " ">> \o Join(m.CourseList, CommaSpace) \o NL
                   ELSE <<>>)
      w3 == w2 \o SourceBlock(m)
      w4 == w3 \o NL
               \o (IF DurPositive(m.CookTime)
                   THEN <<"C", "o", "o", "k", " ", "T", "i", "m", "e", ":", " ">> \o DurationString(m.CookTime) \o NL ELSE <<>>)
               \o (IF DurPositive(m.PrepTime)
                   THEN <<"P", "r", "e", "p", " ", "T", "i", "m", "e", ":", " ">> \o DurationString(m.PrepTime) \o NL ELSE <<>>)
      w5 == w4 \o NL
               \o (IF Len(m.CategoryList) > 0
                   THEN <<"*">> \o Join(m.CategoryList, CommaSpace) \o <<"*", "\n">>
                   ELSE <<>>)
      w6 == w5 \o NL
               \o (IF m.Yield # <<>> THEN <<"*", "*">> \o m.Yield \o <<"*", "*", "\n">> ELSE <<>>)
      w7 == w6 \o Separator \o IngredientBlock(r.IngredientLines) \o Separator
      w8 == w7 \o <<"#", "#", "#", " ", "I", "n", "s", "t", "r", "u", "c", "t", "i", "o", "n", "s", "\n", "\n">> \o Join(r.InstructionLines, NL)
      w9 == w8 \o (IF Len(r.NotesLines) > 0
                   THEN <<"\n", "\n", "#", "#", "#", " ", "N", "o", "t", "e", "s", "\n", "\n">> \o Join(r.NotesLines, NL) ELSE <<>>)
  IN  w9 \o NL

(***************************************************************************)
(* The renderer on its own: a Recipe is drawn, then FormatAsRecipeMD is    *)
(* called on it.                                                           *)
(***************************************************************************)
\* The list <<"x1">>, <<"x2">>, ... of n lines.
LinesUpTo(n) == [i \in 1..n |-> <<"x", DigitChar(i)>>]
Lists(max) == { LinesUpTo(n) : n \in 0..max }

Metadatas(max) ==
  [UUID : {AbcId}, Favorited : {FALSE}, Rating : {0, 4},
   Source : {<<>>, <<"w", "e", "b">>}, CategoryList : Lists(max), CollectionList : Lists(max),
   CourseList : Lists(max), Yield : {<<>>, <<"4">>},
   PrepTime : {Dur(0, 0), Dur(50, 0)},
   CookTime : {Dur(0, 0), Dur(5400, 0), Dur(0, 500000000)}]

\* The recipes whose lists have at most max lines.
Recipes(max) ==
  [Title : {<<>>, Soup}, Metadata : Metadatas(max), PhotoPaths : {<<>>},
   IngredientLines : Lists(max), InstructionLines : Lists(max),
   NotesLines : Lists(max)]

InitFormat ==
  /\ recipe \in Recipes(MaxList)
  /\ output = [done |-> FALSE]
  /\ IdleDuration /\ IdleExtract /\ IdleScrape

CallFormatAsRecipeMD ==
  /\ ~output.done
  /\ output' = [done |-> TRUE, text |-> FormatAsRecipeMD(recipe)]
  /\ UNCHANGED <<recipe, durVars, extractVars, scrapeVars>>

NextFormat == CallFormatAsRecipeMD

SpecFormat == InitFormat /\ [][NextFormat]_vars

(***************************************************************************)
(* C5, stated section by section.                                          *)
(***************************************************************************)
Rendered == output.done
Optional(present, text) == IF present THEN text ELSE <<>>

RECURSIVE CommaJoined(_)
CommaJoined(list) ==
  IF Len(list) = 0 THEN <<>>
  ELSE IF Len(list) = 1 THEN list[1]
  ELSE CommaJoined(Take(list, Len(list) - 1)) \o <<",", " ">> \o list[Len(list)]

RECURSIVE NewlineJoined(_)
NewlineJoined(list) ==
  IF Len(list) = 0 THEN <<>>
  ELSE IF Len(list) = 1 THEN list[1]
  ELSE NewlineJoined(Take(list, Len(list) - 1)) \o <<"\n">> \o list[Len(list)]

Blank == <<"\n">>
TitleLine(r) == <<"#", " ">> \o r.Title \o <<"\n">>
RatingLine(m) == <<"R", "a", "t", "i", "n", "g", ":", " ">> \o IntToStr(m.Rating) \o <<"-", "s", "t", "a", "r", "\n">>
CollectionsLine(m) == <<"C", "o", "l", "l", "e", "c", "t", "i", "o", "n", "s", ":", " ">> \o CommaJoined(m.CollectionList) \o <<"\n">>
CourseLine(m) == <<"C", "o", "u", "r", "s", "e", ":", " ">> \o CommaJoined(m.CourseList) \o <<"\n">>
SourceLine(m) == <<"S", "o", "u", "r", "c", "e", ":", " ">> \o m.Source \o <<"\n">>
CookLine(m) == <<"C", "o", "o", "k", " ", "T", "i", "m", "e", ":", " ">> \o DurationString(m.CookTime) \o <<"\n">>
PrepLine(m) == <<"P", "r", "e", "p", " ", "T", "i", "m", "e", ":", " ">> \o DurationString(m.PrepTime) \o <<"\n">>
CategoriesLine(m) == <<"*">> \o CommaJoined(m.CategoryList) \o <<"*", "\n">>
YieldLine(m) == <<"*", "*">> \o m.Yield \o <<"*", "*", "\n">>
Rule == <<"\n", "-", "-", "-", "\n", "\n">>
IngredientLinesOf(r) ==
  Concat([i \in 1..Len(r.IngredientLines) |-> <<"-", " ">> \o r.IngredientLines[i] \o <<"\n">>])
NotesBlock(r) == <<"\n", "\n", "#", "#", "#", " ", "N", "o", "t", "e", "s", "\n", "\n">> \o NewlineJoined(r.NotesLines)
TimeBlock(m) ==
  Optional(m.CookTime # Dur(0, 0), CookLine(m))
    \o Optional(m.PrepTime # Dur(0, 0), PrepLine(m))

Layout(r) ==
  Concat(<< TitleLine(r),
            Blank, Optional(r.Metadata.Rating # 0, RatingLine(r.Metadata)),
                   Optional(r.Metadata.CollectionList # <<>>, CollectionsLine(r.Metadata)),
                   Optional(r.Metadata.CourseList # <<>>, CourseLine(r.Metadata)),
            Blank, Optional(r.Metadata.Source # <<>>, SourceLine(r.Metadata)),
            Blank, TimeBlock(r.Metadata),
            Blank, Optional(r.Metadata.CategoryList # <<>>, CategoriesLine(r.Metadata)),
            Blank, Optional(r.Metadata.Yield # <<>>, YieldLine(r.Metadata)),
            Rule, IngredientLinesOf(r), Rule,
            <<"#", "#", "#", " ", "I", "n", "s", "t", "r", "u", "c", "t", "i", "o", "n", "s", "\n", "\n">>, NewlineJoined(r.InstructionLines),
            Optional(r.NotesLines # <<>>, NotesBlock(r)),
            <<"\n">> >>)

\* Nothing of the rating, collections, course and source lines is there.
HeadEmpty(r) ==
  /\ r.Metadata.Rating = 0 /\ r.Metadata.CollectionList = <<>>
  /\ r.Metadata.CourseList = <<>> /\ r.Metadata.Source = <<>>

StartsWith(text, prefix) ==
  Len(text) >= Len(prefix) /\ Take(text, Len(prefix)) = prefix

\* C5: the rendered text is the fixed sequence of sections, each of the
\* five blank-line slots written whether or not its block has content; a
\* recipe with no rating, collections, courses or source has its title
\* line followed by the blank-line slots alone before the time block.
C5_Layout ==
  Rendered =>
    /\ output.text = Layout(recipe)
    /\ HeadEmpty(recipe) =>
         StartsWith(output.text,
                    TitleLine(recipe) \o <<"\n", "\n", "\n">> \o TimeBlock(recipe.Metadata) \o <<"\n">>)

\* C5: a recipe without rating, collections, courses and source, with a
\* cook time and with notes, has been rendered.
C5_Witness ==
  /\ Rendered /\ HeadEmpty(recipe)
  /\ recipe.Metadata.CookTime = Dur(5400, 0)
  /\ recipe.NotesLines # <<>> /\ recipe.IngredientLines # <<>>

(***************************************************************************)
(* The scrape loop.  doc holds the div.recipe-details containers of the    *)
(* loaded document in order, pos the number of them already handled, and   *)
(* files the output directory: a function from the paths written to their  *)
(* content.  os.WriteFile either writes the whole content, or fails to     *)
(* open the file and leaves the directory as it is, or fails after it has  *)
(* truncated the file.  Its error is dropped by the caller; writeFailed    *)
(* remembers that one was returned.                                        *)
(***************************************************************************)
\* "./recipes/" + r.Metadata.UUID + ".md"
RecipePath(r) == <<".", "/", "r", "e", "c", "i", "p", "e", "s", "/">> \o r.Metadata.UUID \o <<".", "m", "d">>

WriteOutcomes == {"written", "not opened", "truncated"}

\* os.WriteFile(path, content, 0644) on the directory fs.
WriteFile(fs, path, content, outcome) ==
  IF outcome = "not opened" THEN fs
  ELSE [p \in DOMAIN fs \cup {path} |->
          IF p = path THEN (IF outcome = "written" THEN content ELSE <<>>)
          ELSE fs[p]]

\* r.WriteRecipeMD()
WriteRecipeMD(fs, r, outcome) ==
  WriteFile(fs, RecipePath(r), FormatAsRecipeMD(r), outcome)

\* One call of the callback of doc.Find("div.recipe-details").Each.
EachContainer(outcome) ==
  /\ pos < Len(doc)
  /\ files' = WriteRecipeMD(files, ExtractRecipe(doc[pos + 1]), outcome)
  /\ writeFailed' = (writeFailed \/ outcome # "written")
  /\ pos' = pos + 1
  /\ UNCHANGED <<doc, durVars, extractVars, formatVars>>

ContainerWritten == EachContainer("written")
ContainerWriteFails == \E outcome \in WriteOutcomes \ {"written"} : EachContainer(outcome)

SoupContainer ==
  <<Elem("h2", Prop("name"), Soup), Meta("recipeId", AbcId),
    Parent("ul", Prop("recipeIngredients"), <<OneHalfCupsBroth>>)>>

ContainerPool ==
  { SoupContainer,
    <<Elem("h2", Prop("name"), Stew), Meta("recipeId", AbcId)>>,
    <<Elem("h2", Prop("name"), Stew), Meta("recipeId", <<"u", "2">>),
      Meta("cookTime", PT1H30M)>>,
    <<Elem("h2", Prop("name"), Soup)>>,
    <<Elem("h2", Prop("name"), Stew), Meta("recipeRating", <<"4">>)>> }

\* The documents of at most max containers.
Documents(max) == UNION { [1..n -> ContainerPool] : n \in 0..max }

InitScrape ==
  /\ doc \in Documents(MaxContainers)
  /\ pos = 0
  /\ files = <<>>
  /\ writeFailed = FALSE
  /\ IdleDuration /\ IdleExtract /\ IdleFormat

NextScrape == ContainerWritten \/ ContainerWriteFails

SpecScrape == InitScrape /\ [][NextScrape]_vars

(***************************************************************************)
(* What the documentation says of the output directory.                    *)
(***************************************************************************)
Scraped == pos = Len(doc) /\ ~writeFailed

\* The content attribute of the container's first recipeId meta, "" when
\* there is none.
RecipeIdOf(container) ==
  LET ids == { i \in 1..Len(container) :
                 /\ container[i].tag = "meta"
                 /\ "itemprop" \in DOMAIN container[i].attrs
                 /\ container[i].attrs["itemprop"] = "recipeId" }
  IN  IF ids = {} \/ "content" \notin DOMAIN container[First(ids)].attrs THEN <<>>
      ELSE container[First(ids)].attrs["content"]

FileOf(container) == <<".", "/", "r", "e", "c", "i", "p", "e", "s", "/">> \o RecipeIdOf(container) \o <<".", "m", "d">>

\* C6 (as stated): after a run whose writes all succeeded the directory
\* holds one file per container, N files for N containers, each named by
\* its container's recipeId and holding that container's rendered text.
C6_OneFilePerContainer ==
  Scraped =>
    /\ Cardinality(DOMAIN files) = Len(doc)
    /\ \A i \in 1..Len(doc) :
         /\ FileOf(doc[i]) \in DOMAIN files
         /\ files[FileOf(doc[i])] = FormatAsRecipeMD(ExtractRecipe(doc[i]))

\* The lines of a text: what lies between its newlines.
RECURSIVE SplitLines(_, _)
SplitLines(text, line) ==
  IF text = <<>> THEN <<line>>
  ELSE IF text[1] = "\n" THEN <<line>> \o SplitLines(Tail(text), <<>>)
  ELSE SplitLines(Tail(text), Append(line, text[1]))

\* The line stands between the first and the second "---" line of the text.
InIngredientsSection(text, line) ==
  LET ls == SplitLines(text, <<>>)
      rules == { i \in 1..Len(ls) : ls[i] = <<"-", "-", "-">> }
  IN  /\ Cardinality(rules) >= 2
      /\ \E i \in 1..Len(ls) :
           /\ ls[i] = line
           /\ First(rules) < i
           /\ i < First(rules \ {First(rules)})

SoupScraped == doc = <<SoupContainer>> /\ Scraped

AbcFile == <<".", "/", "r", "e", "c", "i", "p", "e", "s", "/", "a", "b", "c", "-", "1", "2", "3", ".", "m", "d">>

\* C7 (as stated): the file abc-123.md of the Soup document starts with
\* "# Soup" and has the line "- 11/2 cups broth" among its ingredients.
C7_Original ==
  SoupScraped =>
    /\ AbcFile \in DOMAIN files
    /\ StartsWith(files[AbcFile], <<"#", " ", "S", "o", "u", "p">>)
    /\ InIngredientsSection(files[AbcFile], <<"-", " ", "1", "1", "/", "2", " ", "c", "u", "p", "s", " ", "b", "r", "o", "t", "h">>)

\* C7 (amended): the file abc-123.md of the Soup document starts with
\* "# Soup" and has the line "- 1 1/2 cups broth" among its ingredients:
\* the space before the glyph stays.
C7_SpaceKept ==
  SoupScraped =>
    /\ AbcFile \in DOMAIN files
    /\ StartsWith(files[AbcFile], <<"#", " ", "S", "o", "u", "p", "\n">>)
    /\ InIngredientsSection(files[AbcFile], <<"-", " ", "1", " ", "1", "/", "2", " ", "c", "u", "p", "s", " ", "b", "r", "o", "t", "h">>)

\* C7: the Soup document has been scraped and its one file written.
C7_Witness == SoupScraped /\ DOMAIN files = {AbcFile}

====
